---------------------------- MODULE Spec2Model ----------------------------
(***************************************************************************)
(* Shared-instance lifecycle of the Xilinx I2C platform driver             *)
(* (drivers/platform/xilinx/xilinx_i2c.c): the two registries pl_list and  *)
(* ps_list of inst_table_item records, the descriptors handed to callers,  *)
(* and the facade operations xil_i2c_init, xil_i2c_remove, xil_i2c_write    *)
(* and xil_i2c_read.                                                       *)
(*                                                                         *)
(* Each facade call is one atomic step (the driver is single threaded).    *)
(* A handler is written as an operator from the state before the call to   *)
(* the state after it, threaded through LET in the order of the C code.    *)
(*                                                                         *)
(* uint32_t values are held as their 32-bit two's-complement               *)
(* representative: 0xFFFFFFFF is -1, so 0 - 1 wraps to -1.                 *)
(***************************************************************************)
EXTENDS Integers, Sequences, FiniteSets, TLC

\* ------------------------------------------------------------------ bounds
\* descriptors the callers may obtain in one run
MaxDesc == 2
\* calls a caller makes on a descriptor it has already removed
MaxMisuse == 2

Descs == 1 .. MaxDesc
\* the controllers of each family on the board (XPAR_*_DEVICE_ID 0 and 1)
DeviceIds == {0, 1}
\* enum xil_i2c_type, and one selector value outside the enum
Families == {"IIC_PL", "IIC_PS"}
Types == Families \cup {"IIC_OTHER"}
\* the bus speeds (kHz) callers ask for.  Only the IIC_PS code reads
\* max_speed_hz (lines 135-143, 281), so the other callers ask for one speed.
Speeds == {100, 400}
SpeedsOf(type) == IF type = "IIC_PS" THEN Speeds ELSE {100}

\* ----------------------------------------------------------------- helpers
INT32_MAX == 2147483647
INT32_MIN == (-INT32_MAX) - 1

\* uint32_t ++ and -- (inst_no++, inst_no--), modulo 2^32
Inc32(x) == IF x = INT32_MAX THEN INT32_MIN ELSE x + 1
Dec32(x) == IF x = INT32_MIN THEN INT32_MAX ELSE x - 1

\* struct inst_table_item
Item(instance, device_id, inst_no) ==
  [instance |-> instance, device_id |-> device_id, inst_no |-> inst_no]

\* uint32_t a - b, modulo 2^32, on the 32-bit representatives; the int32_t
\* the difference is returned as has the same representative.  The cases
\* keep every intermediate value within 32 bits.
Sub32(a, b) ==
  IF (a >= 0) = (b >= 0) THEN a - b
  ELSE IF a >= 0
    THEN IF a > INT32_MAX + b THEN (a + INT32_MIN) + (INT32_MIN - b)
         ELSE a - b
  ELSE IF a < INT32_MIN + b THEN (a - INT32_MIN) + ((INT32_MAX - b) + 1)
       ELSE a - b

\* the comparator with its result narrowed to 16 bits
xil_i2c_cmp_narrow(el1, el2) == Sub32(el1.device_id, el2.device_id) % 65536

\* static int32_t xil_i2c_cmp(void *el1, void *el2)
xil_i2c_cmp(el1, el2) == Sub32(el1.device_id, el2.device_id)

\* ---- the generic list (list.h): a list_desc pointer is NULL or holds the
\* ---- elements in push order; an iterator pointer is NULL or a cursor over
\* ---- the list it was initialised with.  Every use of a cursor in this
\* ---- driver follows an iterator_find that repositions it, so the position
\* ---- is the value iterator_find returns and is not kept between calls.
NullList == [null |-> TRUE, elems |-> << >>]
NullIt == [null |-> TRUE]

\* list_init(&list, LIST_DEFAULT, cmp): a new empty list
list_init == [null |-> FALSE, elems |-> << >>]

\* iterator_init(&it, list, true): FAILURE (it stays NULL) on a NULL list
iterator_init(list) == IF list.null THEN NullIt ELSE [null |-> FALSE]

\* position of the first element the comparator finds equal to key, 0 if none
FindIndex(elems, key) ==
  LET hits == {i \in 1 .. Len(elems) : xil_i2c_cmp(elems[i], key) = 0}
  IN IF hits = {} THEN 0 ELSE CHOOSE i \in hits : \A j \in hits : i <= j

\* list_read_find(list, &data, cmp_data): FAILURE (0) on a NULL list
list_read_find(list, key) == IF list.null THEN 0 ELSE FindIndex(list.elems, key)

\* iterator_find(it, cmp_data): FAILURE (0) on a NULL iterator
iterator_find(it, list, key) ==
  IF it.null \/ list.null THEN 0 ELSE FindIndex(list.elems, key)

\* list->push(list, data): LIST_DEFAULT appends
list_push(list, item) == [list EXCEPT !.elems = Append(@, item)]

\* iterator_get(it, &data): unlink the element under the cursor
RemoveAt(elems, i) ==
  [j \in 1 .. (Len(elems) - 1) |-> IF j < i THEN elems[j] ELSE elems[j + 1]]
iterator_get(list, i) == [list EXCEPT !.elems = RemoveAt(@, i)]

\* ---- heap accounting: the number of live blocks of each kind the driver
\* ---- itself allocates (the registries' own storage belongs to list.c)
BlockKinds == {"i2c_desc", "xil_i2c_desc", "instance", "inst_table_item"}
Malloc(heap, kind) == [heap EXCEPT ![kind] = @ + 1]
Free(heap, kind) == [heap EXCEPT ![kind] = @ - 1]


\* ------------------------------------------------------------------- state
VARIABLES
  build,       \* which BSP headers the build has: [XIIC_H, XIICPS_H]
  pl_list,     \* static struct list_desc *pl_list
  pl_it,       \* static struct iterator *pl_it
  ps_list,     \* static struct list_desc *ps_list
  ps_it,       \* static struct iterator *ps_it
  lost,        \* inst_table_items of lists no pointer reaches any more
  desc,        \* the descriptor blocks (i2c_desc with its xil_i2c_desc)
  out,         \* the caller's *desc: the slot last written to it, 0 if none
  instances,   \* backend instances (XIic / XIicPs) that were registered
  pl_started,  \* per PL controller: started by XIic_Start, not yet stopped
  ps_sclk,     \* per PS controller: the clock XIicPs_SetSClk programmed
  ps_last_bitrate, \* static uint32_t ps_last_bitrate
  heap,        \* live blocks per kind
  calls,       \* the BSP functions the last facade call called, in order
  hist,        \* per family and controller: the calls made so far
  ret,         \* what the last facade call returned
  path,        \* the branch the last facade call took
  last,        \* the last facade call: its operation and arguments
  xfer,        \* the last xil_i2c_write / xil_i2c_read: what the BSP did in it
  cmp,         \* the last comparison of two records and what it returned
  misuse,      \* calls made so far on descriptors already removed
  halted       \* the program has faulted (NULL dereference)

vars == << build, pl_list, pl_it, ps_list, ps_it, lost, desc, out, instances,
           pl_started, ps_sclk, ps_last_bitrate, heap, calls, hist, ret, path,
           last, xfer, cmp, misuse, halted >>

\* the state as one record, so that a handler is a function of it
St ==
  [build |-> build, pl_list |-> pl_list, pl_it |-> pl_it, ps_list |-> ps_list,
   ps_it |-> ps_it, lost |-> lost, desc |-> desc, out |-> out,
   instances |-> instances, pl_started |-> pl_started, ps_sclk |-> ps_sclk,
   ps_last_bitrate |-> ps_last_bitrate, heap |-> heap, calls |-> calls,
   hist |-> hist, ret |-> ret, path |-> path, last |-> last, xfer |-> xfer,
   cmp |-> cmp,
   misuse |-> misuse, halted |-> halted]

Becomes(t) ==
  /\ build' = t.build /\ pl_list' = t.pl_list /\ pl_it' = t.pl_it
  /\ ps_list' = t.ps_list /\ ps_it' = t.ps_it /\ lost' = t.lost
  /\ desc' = t.desc /\ out' = t.out /\ instances' = t.instances
  /\ pl_started' = t.pl_started /\ ps_sclk' = t.ps_sclk /\ heap' = t.heap
  /\ ps_last_bitrate' = t.ps_last_bitrate /\ calls' = t.calls /\ xfer' = t.xfer
  /\ cmp' = t.cmp
  /\ hist' = t.hist /\ ret' = t.ret /\ path' = t.path /\ last' = t.last
  /\ misuse' = t.misuse /\ halted' = t.halted

NoDesc ==
  [state |-> "unused", type |-> "IIC_OTHER", device_id |-> 0, instance |-> 0,
   max_speed_hz |-> 0]

\* the calls made so far for one controller: "inits" (no xil_i2c_remove yet),
\* "removes" (inits, then xil_i2c_remove calls that all returned SUCCESS),
\* "mixed" (anything else)
NoHist == "inits"

NoCall == [op |-> "none", d |-> 0, type |-> "IIC_OTHER", device_id |-> 0]

\* no transfer yet.  speed: the max_speed_hz of the descriptor; sclk: what
\* became of the XIicPs_SetSClk call ("none": not called); transfer: what
\* became of the XIic_Send / XIic_Recv / XIicPs_Master* call
NoXfer == [speed |-> 0, sclk |-> "none", transfer |-> "none"]

\* no comparison yet.  found: what a lookup of el2's identifier in a list
\* holding el1 alone returned
NoCmp == [op |-> "none", el1 |-> 0, el2 |-> 0, result |-> 0, found |-> 0]

Init ==
  /\ build \in [XIIC_H : BOOLEAN, XIICPS_H : BOOLEAN]
  /\ pl_list = NullList /\ pl_it = NullIt
  /\ ps_list = NullList /\ ps_it = NullIt
  /\ lost = {}
  /\ desc = [d \in Descs |-> NoDesc]
  /\ out = 0
  /\ instances = << >>
  /\ pl_started = [i \in DeviceIds |-> FALSE]
  /\ ps_sclk = [i \in DeviceIds |-> 0]
  /\ ps_last_bitrate = 0
  /\ heap = [k \in BlockKinds |-> 0]
  /\ calls = << >>
  /\ hist = [f \in Families |-> [i \in DeviceIds |-> NoHist]]
  /\ ret = "none" /\ path = "none" /\ last = NoCall /\ xfer = NoXfer
  /\ cmp = NoCmp
  /\ misuse = 0
  /\ halted = FALSE

\* the family's registry, in and out of the state record
ListOf(s, f) == IF f = "IIC_PL" THEN s.pl_list ELSE s.ps_list
ItOf(s, f) == IF f = "IIC_PL" THEN s.pl_it ELSE s.ps_it

\* a NULL pointer is dereferenced: the program faults and never returns
Fault(s, where) == [s EXCEPT !.halted = TRUE, !.ret = "FAULT", !.path = where]


\* --------------------------------------------------------- xil_i2c_init
\* The step of xil_i2c_init that is made to fail ("none": no step fails).
\* The steps of the new-controller path, in the order the code calls them:
StepOrder ==
  << "malloc_instance", "lookup_config", "cfg_initialize", "start",
     "set_address", "self_test", "set_gp_output", "calloc", "push" >>
Rank(step) == CHOOSE k \in 1 .. Len(StepOrder) : StepOrder[k] = step
\* the step was executed and succeeded
Passed(fail, step) ==
  fail \in {"none", "set_sclk"} \/ Rank(fail) > Rank(step)

\* the failure inputs that make sense on each path
PLFails ==
  {"none", "malloc_idesc", "malloc_xdesc", "malloc_instance", "lookup_config",
   "cfg_initialize", "start", "set_address", "self_test", "set_gp_output",
   "calloc", "push"}
PSFails ==
  {"none", "malloc_idesc", "malloc_xdesc", "malloc_instance", "lookup_config",
   "cfg_initialize", "set_sclk", "calloc", "push"}
OtherFails == {"none", "malloc_idesc", "malloc_xdesc"}
FailsOf(type) ==
  IF type = "IIC_PL" THEN PLFails ELSE IF type = "IIC_PS" THEN PSFails
  ELSE OtherFails

\* lines 168-169: the two descriptor blocks malloc returned (not NULL)
DescBlocks(fail) ==
  (IF fail = "malloc_idesc" THEN {} ELSE {"i2c_desc"})
    \cup (IF fail = "malloc_xdesc" THEN {} ELSE {"xil_i2c_desc"})

\* init_error with free(xdesc) forgotten
init_error_keeps_xdesc(s, got, why) ==
  LET h1 == IF "i2c_desc" \in got THEN Free(s.heap, "i2c_desc") ELSE s.heap
  IN [s EXCEPT !.heap = h1, !.ret = "FAILURE", !.path = why]

\* label error, lines 304-308: free(idesc); free(xdesc); return FAILURE.
\* got: the descriptor blocks that are not NULL
init_error(s, got, why) ==
  LET h1 == IF "i2c_desc" \in got THEN Free(s.heap, "i2c_desc") ELSE s.heap
      h2 == IF "xil_i2c_desc" \in got THEN Free(h1, "xil_i2c_desc") ELSE h1
  IN [s EXCEPT !.heap = h2, !.ret = "FAILURE", !.path = why]

\* labels pl_error / ps_error, lines 242-245 and 290-293: free the backend
\* instance block (if malloc returned one), then goto error
init_backend_error(s, got, why) ==
  LET s1 == IF why = "malloc_instance" THEN s
            ELSE [s EXCEPT !.heap = Free(@, "instance")]
  IN init_error(s1, got, why)

\* lines 300-302: *desc = idesc; return SUCCESS.  The descriptor block d now
\* belongs to the caller.
init_return(s, d, param, instance, how) ==
  [s EXCEPT !.desc[d] = [state |-> "live", type |-> param.type,
                         device_id |-> param.device_id, instance |-> instance,
                         max_speed_hz |-> param.max_speed_hz],
            !.out = d, !.ret = "SUCCESS", !.path = how]

\* lines 197-199 and 261-263: the record is found; share its instance
init_attach(s, f, i, d, param) ==
  LET list == ListOf(s, f)
      found == list.elems[i]
      list2 == [list EXCEPT !.elems[i].inst_no = Inc32(@)]
      s1 == IF f = "IIC_PL" THEN [s EXCEPT !.pl_list = list2]
            ELSE [s EXCEPT !.ps_list = list2]
  IN init_return(s1, d, param, found.instance, "shared")

\* lines 206-233: XIic_LookupConfig .. XIic_SetGpOutput on controller id
bringup_pl(s, id, fail) ==
  LET s1 == IF Passed(fail, "lookup_config")
            THEN [s EXCEPT !.calls = Append(@, "XIic_CfgInitialize")] ELSE s
      \* XIic_CfgInitialize resets the core
      s2 == IF Passed(fail, "cfg_initialize")
            THEN [s1 EXCEPT !.pl_started[id] = FALSE,
                            !.calls = Append(@, "XIic_Start")]
            ELSE s1
      s3 == IF Passed(fail, "start")
            THEN [s2 EXCEPT !.pl_started[id] = TRUE] ELSE s2
  IN s3

\* the bring-up also remembers the speed it programmed
bringup_ps_caches(s, id, speed, fail) ==
  LET s1 == IF Passed(fail, "lookup_config")
            THEN [s EXCEPT !.calls = Append(@, "XIicPs_CfgInitialize")] ELSE s
      s2 == IF Passed(fail, "cfg_initialize")
            THEN [s1 EXCEPT !.ps_sclk[id] = 0,
                            !.calls = Append(@, "XIicPs_SetSClk")]
            ELSE s1
      s3 == IF Passed(fail, "cfg_initialize") /\ fail # "set_sclk"
            THEN [s2 EXCEPT !.ps_sclk[id] = speed, !.ps_last_bitrate = speed]
            ELSE s2
  IN s3

\* lines 270-281: XIicPs_LookupConfig, XIicPs_CfgInitialize, XIicPs_SetSClk
\* (whose status is not looked at) on controller id
bringup_ps(s, id, speed, fail) ==
  LET s1 == IF Passed(fail, "lookup_config")
            THEN [s EXCEPT !.calls = Append(@, "XIicPs_CfgInitialize")] ELSE s
      \* XIicPs_CfgInitialize resets the controller
      s2 == IF Passed(fail, "cfg_initialize")
            THEN [s1 EXCEPT !.ps_sclk[id] = 0,
                            !.calls = Append(@, "XIicPs_SetSClk")]
            ELSE s1
      s3 == IF Passed(fail, "cfg_initialize") /\ fail # "set_sclk"
            THEN [s2 EXCEPT !.ps_sclk[id] = speed] ELSE s2
  IN s3

\* lines 235-239 and 283-287: a new record with inst_no = 1 is pushed.
\* calloc's result is not checked and neither is push's.
init_register(s, f, d, param, fail) ==
  LET list == ListOf(s, f)
      h == Len(s.instances) + 1
      item == Item(h, param.device_id, 1)
      s1 == [s EXCEPT !.instances =
                        Append(@, [type |-> f, device_id |-> param.device_id,
                                   stopped |-> FALSE]),
                      !.heap = Malloc(@, "inst_table_item")]
      s2 == IF fail = "push" THEN [s1 EXCEPT !.lost = @ \cup {item}]
            ELSE IF f = "IIC_PL"
              THEN [s1 EXCEPT !.pl_list = list_push(list, item)]
              ELSE [s1 EXCEPT !.ps_list = list_push(list, item)]
  IN IF fail = "calloc" THEN Fault(s, "calloc_null")
     ELSE IF list.null THEN Fault(s, "list_null")
     ELSE init_return(s2, d, param, h, "fresh")

\* lines 202-241 and 266-289: no record for the identifier
init_fresh(s, f, d, param, fail, got) ==
  LET s1 == IF fail = "malloc_instance" THEN s
            ELSE [s EXCEPT !.heap = Malloc(@, "instance")]
      s2 == IF f = "IIC_PL" THEN bringup_pl(s1, param.device_id, fail)
            ELSE bringup_ps(s1, param.device_id, param.max_speed_hz, fail)
  IN IF Passed(fail, "set_gp_output") THEN init_register(s2, f, d, param, fail)
     ELSE init_backend_error(s2, got, fail)

\* lines 188-191: the PL registry and its iterator are made on first use
init_pl_registry(s) ==
  LET s1 == IF s.pl_list.null
            THEN [s EXCEPT !.pl_list = list_init,
                           !.calls = Append(@, "list_init")]
            ELSE s
  IN IF s1.pl_it.null
     THEN [s1 EXCEPT !.pl_it = iterator_init(s1.pl_list),
                     !.calls = Append(@, "iterator_init")]
     ELSE s1

\* lines 252-255: the PS registry and its iterator; the conditions test
\* pl_list and pl_it.  A list that ps_list pointed at is not freed.
init_ps_registry(s) ==
  LET s1 == IF s.pl_list.null
            THEN [s EXCEPT !.ps_list = list_init,
                           !.calls = Append(@, "list_init"),
                           !.lost = @ \cup {s.ps_list.elems[k] :
                                              k \in 1 .. Len(s.ps_list.elems)}]
            ELSE s
  IN IF s1.pl_it.null
     THEN [s1 EXCEPT !.ps_it = iterator_init(s1.ps_list),
                     !.calls = Append(@, "iterator_init")]
     ELSE s1

\* lines 182-200 / 246-264: registry, lookup, then attach or bring up
init_family(s, f, d, param, fail, got) ==
  LET s1 == IF f = "IIC_PL" THEN init_pl_registry(s) ELSE init_ps_registry(s)
      i == list_read_find(ListOf(s1, f), Item(0, param.device_id, 0))
  IN IF i # 0 THEN init_attach(s1, f, i, d, param)
     ELSE init_fresh(s1, f, d, param, fail, got)

\* the family's code is compiled in (XIIC_H / XIICPS_H)
Built(s, type) ==
  \/ type = "IIC_PL" /\ s.build.XIIC_H
  \/ type = "IIC_PS" /\ s.build.XIICPS_H

\* int32_t xil_i2c_init(struct i2c_desc **desc, const struct i2c_init_param *)
\* d: the descriptor block malloc hands out; param: max_speed_hz, type,
\* device_id; fail: the step that fails
xil_i2c_init(s, d, param, fail) ==
  LET got == DescBlocks(fail)
      s1 == [s EXCEPT !.calls = << >>,
                      !.heap =
               [k \in BlockKinds |-> IF k \in got THEN @[k] + 1 ELSE @[k]]]
  IN IF got # {"i2c_desc", "xil_i2c_desc"} THEN init_error(s1, got, fail)
     ELSE IF Built(s, param.type)
       THEN init_family(s1, param.type, d, param, fail, got)
     ELSE IF param.type \in Families THEN init_error(s1, got, "not_built")
     ELSE init_error(s1, got, "unsupported")


\* ------------------------------------------------------- xil_i2c_remove
\* labels error / default, lines 369-372: return FAILURE
remove_error(s, why) == [s EXCEPT !.ret = "FAILURE", !.path = why]

\* lines 375-378: free(desc->extra); free(desc); return SUCCESS.
\* Freeing a block that is already free is undefined: the allocator either
\* does not notice (double_free_faults = FALSE) or the program faults.
remove_return(s, d, how, double_free_faults) ==
  IF s.desc[d].state = "live"
  THEN [s EXCEPT !.desc[d].state = "freed",
                 !.heap = Free(Free(@, "xil_i2c_desc"), "i2c_desc"),
                 !.ret = "SUCCESS", !.path = how]
  ELSE IF double_free_faults THEN Fault(s, "double_free")
  ELSE [s EXCEPT !.ret = "SUCCESS", !.path = how]

\* line 338: XIic_Stop on the descriptor's own instance pointer
XIic_Stop(s, instance) ==
  LET id == s.instances[instance].device_id
  IN [s EXCEPT !.instances[instance].stopped = TRUE,
               !.pl_started[id] = FALSE]

\* lines 343-345 and 363-365: iterator_get unlinks the record, free(record)
remove_record(s, f, i) ==
  LET list == ListOf(s, f)
      s1 == IF f = "IIC_PL"
            THEN [s EXCEPT !.pl_list = iterator_get(list, i)]
            ELSE [s EXCEPT !.ps_list = iterator_get(list, i)]
  IN [s1 EXCEPT !.heap = Free(@, "inst_table_item")]

\* lines 333-334 and 358-359: iterator_read, then inst_no--
remove_decrement(s, f, i) ==
  IF f = "IIC_PL"
  THEN [s EXCEPT !.pl_list.elems[i].inst_no = Dec32(@)]
  ELSE [s EXCEPT !.ps_list.elems[i].inst_no = Dec32(@)]

\* lines 324-346 and 349-366.  view: the type, device_id and instance read
\* through the descriptor pointer.
remove_family(s, f, d, view, stop_ok, double_free_faults) ==
  LET i == iterator_find(ItOf(s, f), ListOf(s, f), Item(0, view.device_id, 0))
      s1 == remove_decrement(s, f, i)
      left == ListOf(s1, f).elems[i].inst_no
      s2 == [s1 EXCEPT !.calls = Append(@, "XIic_Stop")]
  IN IF i = 0 THEN remove_error(s, "not_found")
     ELSE IF left # 0 THEN remove_return(s1, d, "shared_left", double_free_faults)
     ELSE IF f = "IIC_PS"
       THEN remove_return(remove_record(s1, f, i), d, "last", double_free_faults)
     ELSE IF ~stop_ok THEN remove_error(s2, "stop_failed")
     ELSE remove_return(remove_record(XIic_Stop(s2, view.instance), f, i),
                        d, "last", double_free_faults)

\* int32_t xil_i2c_remove(struct i2c_desc *desc)
xil_i2c_remove(s0, d, view, stop_ok, double_free_faults) ==
  LET s == [s0 EXCEPT !.calls = << >>]
  IN IF Built(s, view.type)
     THEN remove_family(s, view.type, d, view, stop_ok, double_free_faults)
     ELSE IF view.type \in Families THEN remove_error(s, "not_built")
     ELSE remove_error(s, "unsupported")

\* what a read through a pointer to the block d yields: the block's fields
ViewOf(s, d) ==
  [type |-> s.desc[d].type, device_id |-> s.desc[d].device_id,
   instance |-> s.desc[d].instance]

\* what a read through a pointer to a freed block may yield: the old fields,
\* or the fields with the type or identifier another user of the memory left
StaleViews(s, d) ==
  {[type |-> t, device_id |-> i, instance |-> s.desc[d].instance] :
     t \in Types, i \in DeviceIds}


\* ------------------------------------------ xil_i2c_write / xil_i2c_read
\* The BSP call of a transfer that is made to fail ("none": none fails).
\* data, bytes_number and stop_bit are handed to the BSP as they are and
\* decide nothing in the driver, so they are left out; a transfer that moves
\* fewer bytes than bytes_number is the failure "transfer".
XferFails == {"none", "set_sclk", "set_options", "transfer"}

\* what the transfer functions read through the descriptor pointer
XferViewOf(s, d) ==
  [type |-> s.desc[d].type, instance |-> s.desc[d].instance,
   max_speed_hz |-> s.desc[d].max_speed_hz]

\* what they may read through a pointer to a freed block: the old instance
\* pointer with any selector and speed
StaleXferViews(s, d) ==
  {[type |-> t, instance |-> s.desc[d].instance, max_speed_hz |-> v] :
     t \in Types, v \in Speeds}

\* line 138: XIicPs_SetSClk(instance, max_speed_hz) from a transfer.  A call
\* that fails leaves the clock as it was.
XIicPs_SetSClk(s, view, fail) ==
  LET id == s.instances[view.instance].device_id
      s1 == [s EXCEPT !.calls = Append(@, "XIicPs_SetSClk")]
  IN IF fail = "set_sclk"
     THEN [s1 EXCEPT !.xfer.sclk = "failed", !.ret = "FAILURE"]
     ELSE [s1 EXCEPT !.xfer.sclk = "ok", !.ps_sclk[id] = view.max_speed_hz,
                     !.ret = "SUCCESS"]

\* the cache is written with a value other than the one just programmed
set_config_caches_zero(s, view, fail) ==
  LET s1 == XIicPs_SetSClk(s, view, fail)
  IN IF s1.ret # "SUCCESS" THEN s1
     ELSE [s1 EXCEPT !.ps_last_bitrate = 0]

\* lines 137-142: the clock is programmed and remembered
set_config(s, view, fail) ==
  LET s1 == XIicPs_SetSClk(s, view, fail)
  IN IF s1.ret # "SUCCESS" THEN s1
     ELSE [s1 EXCEPT !.ps_last_bitrate = view.max_speed_hz]

\* the comparison with the cache the other way round
set_transmission_config_when_equal(s, view, fail) ==
  IF view.type = "IIC_PL"
  THEN [s EXCEPT !.ret = IF s.build.XIIC_H THEN "SUCCESS" ELSE "FAILURE"]
  ELSE IF view.type = "IIC_PS" /\ s.build.XIICPS_H
    THEN IF view.max_speed_hz = s.ps_last_bitrate
         THEN set_config(s, view, fail)
         ELSE [s EXCEPT !.ret = "SUCCESS"]
  ELSE [s EXCEPT !.ret = "FAILURE"]

\* static int32_t xil_i2c_set_transmission_config(struct i2c_desc *desc);
\* its result is left in ret
xil_i2c_set_transmission_config(s, view, fail) ==
  IF view.type = "IIC_PL"
  THEN [s EXCEPT !.ret = IF s.build.XIIC_H THEN "SUCCESS" ELSE "FAILURE"]
  ELSE IF view.type = "IIC_PS" /\ s.build.XIICPS_H
    THEN IF view.max_speed_hz # s.ps_last_bitrate
         THEN set_config(s, view, fail)
         ELSE [s EXCEPT !.ret = "SUCCESS"]
  ELSE [s EXCEPT !.ret = "FAILURE"]

\* a failing transfer also stops the controllers
xfer_return_stops(s, status, how) ==
  IF status = "SUCCESS" THEN [s EXCEPT !.ret = status, !.path = how]
  ELSE [s EXCEPT !.ret = status, !.path = how,
                 !.calls = Append(@, "XIic_Stop"),
                 !.pl_started = [i \in DeviceIds |-> FALSE]]

\* a transfer function hands back a status
xfer_return(s, status, how) == [s EXCEPT !.ret = status, !.path = how]

\* the BSP call that moves the bytes
transfer(s, name, fail) ==
  [s EXCEPT !.calls = Append(@, name),
            !.xfer.transfer = IF fail = "transfer" THEN "failed" ELSE "ok"]

\* the state on entry of a transfer function
xfer_enter(s, view) ==
  [s EXCEPT !.calls = << >>,
            !.xfer = [speed |-> view.max_speed_hz, sclk |-> "none",
                      transfer |-> "none"]]

\* lines 416-434 and 485-503, the IIC_PS case of write and read: name is
\* XIicPs_MasterSend or XIicPs_MasterRecv.  Its status is not assigned to
\* ret, so the test that follows it sees XIicPs_SetOptions' SUCCESS again.
xfer_ps(s, view, fail, name) ==
  LET c == xil_i2c_set_transmission_config(s, view, fail)
      o == [c EXCEPT !.calls = Append(@, "XIicPs_SetOptions")]
  IN IF c.ret # "SUCCESS" THEN xfer_return(c, "FAILURE", "config_failed")
     ELSE IF fail = "set_options"
       THEN xfer_return(o, "FAILURE", "options_failed")
     ELSE xfer_return(transfer(o, name, fail), "SUCCESS", "transferred")

\* the selector is not one the build handles: goto error / default
xfer_unhandled(s, view) ==
  xfer_return(s, "FAILURE",
              IF view.type \in Families THEN "not_built" ELSE "unsupported")

\* int32_t xil_i2c_write(desc, data, bytes_number, stop_bit).  The IIC_PL
\* case (lines 402-413) does not look at what XIic_Send returns.
xil_i2c_write(s0, view, fail) ==
  LET s == xfer_enter(s0, view)
      c == xil_i2c_set_transmission_config(s, view, fail)
  IN IF view.type = "IIC_PL" /\ s.build.XIIC_H
     THEN IF c.ret # "SUCCESS" THEN xfer_return(c, "FAILURE", "config_failed")
          ELSE xfer_return(transfer(c, "XIic_Send", fail), "SUCCESS",
                           "transferred")
     ELSE IF view.type = "IIC_PS" /\ s.build.XIICPS_H
       THEN xfer_ps(s, view, fail, "XIicPs_MasterSend")
     ELSE xfer_unhandled(s, view)

\* int32_t xil_i2c_read(desc, data, bytes_number, stop_bit).  The IIC_PL
\* case (lines 467-482) fails when XIic_Recv returns other than bytes_number.
xil_i2c_read(s0, view, fail) ==
  LET s == xfer_enter(s0, view)
      c == xil_i2c_set_transmission_config(s, view, fail)
      r == transfer(c, "XIic_Recv", fail)
  IN IF view.type = "IIC_PL" /\ s.build.XIIC_H
     THEN IF c.ret # "SUCCESS" THEN xfer_return(c, "FAILURE", "config_failed")
          ELSE IF fail = "transfer"
            THEN xfer_return(r, "FAILURE", "short_read")
          ELSE xfer_return(r, "SUCCESS", "transferred")
     ELSE IF view.type = "IIC_PS" /\ s.build.XIICPS_H
       THEN xfer_ps(s, view, fail, "XIicPs_MasterRecv")
     ELSE xfer_unhandled(s, view)


\* ----------------------------------------------------------------- calls
\* the record of the call in last and hist (observation only)
NoteInit(s, t, param) ==
  LET f == param.type
      id == param.device_id
      t1 == [t EXCEPT !.last = [op |-> "init", d |-> 0, type |-> f,
                                device_id |-> id]]
  IN IF f \in Families /\ t.ret = "SUCCESS" /\ s.hist[f][id] # "inits"
     THEN [t1 EXCEPT !.hist[f][id] = "mixed"]
     ELSE t1

NoteRemove(s, t, op, d) ==
  LET f == s.desc[d].type
      id == s.desc[d].device_id
  IN [t EXCEPT !.last = [op |-> op, d |-> d, type |-> f, device_id |-> id],
               !.hist[f][id] = IF t.ret = "SUCCESS" /\ @ # "mixed"
                               THEN "removes" ELSE "mixed"]

NoteXfer(s, t, op, d) ==
  [t EXCEPT !.last = [op |-> op, d |-> d, type |-> s.desc[d].type,
                      device_id |-> s.desc[d].device_id]]

\* the steps that can fail in xil_i2c_init(type, id) from state s: the
\* bring-up steps are only reached when the family is built and the lookup
\* finds no record
WillBringUp(s, type, id) ==
  /\ Built(s, type)
  /\ LET s1 == IF type = "IIC_PL" THEN init_pl_registry(s)
               ELSE init_ps_registry(s)
     IN list_read_find(ListOf(s1, type), Item(0, id, 0)) = 0
FailsIn(s, type, id) ==
  IF WillBringUp(s, type, id) THEN FailsOf(type) ELSE OtherFails

\* the block malloc hands out next: blocks are not handed out twice
NextDesc == CHOOSE d \in Descs :
               /\ desc[d].state = "unused"
               /\ \A e \in Descs : desc[e].state = "unused" => d <= e

\* the steps that fail because storage cannot be obtained
AllocFails ==
  {"malloc_idesc", "malloc_xdesc", "malloc_instance", "calloc", "push"}

\* a caller calls xil_i2c_init; a step outside `barred` may fail
InitStep(barred) ==
  /\ ~halted
  /\ \E d \in Descs : desc[d].state = "unused"
  /\ \E type \in Types, id \in DeviceIds :
       \E speed \in SpeedsOf(type), fail \in FailsIn(St, type, id) \ barred :
         LET param == [max_speed_hz |-> speed, type |-> type, device_id |-> id]
         IN Becomes(NoteInit(St, xil_i2c_init(St, NextDesc, param, fail),
                             param))

\* xil_i2c_init, any step of which may fail
InitCall == InitStep({})

\* xil_i2c_init while storage can always be obtained
InitCallMemOk == InitStep(AllocFails)

\* xil_i2c_init while storage can be obtained and the controller comes up:
\* only XIicPs_SetSClk, whose status xil_i2c_init does not look at, may fail
InitCallUp == InitStep((PLFails \cup PSFails) \ {"none", "set_sclk"})

\* xil_i2c_init no step of which fails
InitCallOk == InitStep((PLFails \cup PSFails) \ {"none"})

\* a caller calls xil_i2c_remove on a descriptor it holds
RemoveCall ==
  /\ ~halted
  /\ \E d \in Descs, stop_ok \in BOOLEAN :
       /\ desc[d].state = "live"
       /\ Becomes(NoteRemove(St, xil_i2c_remove(St, d, ViewOf(St, d), stop_ok,
                                                FALSE), "remove", d))

\* a caller calls xil_i2c_remove on a descriptor it has removed before
RemoveFreedCall ==
  /\ ~halted
  /\ misuse < MaxMisuse
  /\ \E d \in Descs, stop_ok \in BOOLEAN, double_free_faults \in BOOLEAN :
       /\ desc[d].state = "freed"
       /\ \E view \in StaleViews(St, d) :
            Becomes([NoteRemove(St, xil_i2c_remove(St, d, view, stop_ok,
                                                   double_free_faults),
                                "remove_freed", d)
                       EXCEPT !.misuse = @ + 1])

\* the BSP calls that can fail in a transfer on descriptor d from state s:
\* the IIC_PL code calls only the transfer function, and XIicPs_SetSClk is
\* only called when the speed differs from ps_last_bitrate
XferFailsIn(s, d) ==
  IF s.desc[d].type = "IIC_PL" THEN {"none", "transfer"}
  ELSE IF s.desc[d].max_speed_hz = s.ps_last_bitrate
    THEN XferFails \ {"set_sclk"}
  ELSE XferFails

\* a caller calls xil_i2c_write on a descriptor it holds
WriteCall ==
  /\ ~halted
  /\ \E d \in Descs :
       /\ desc[d].state = "live"
       /\ \E fail \in XferFailsIn(St, d) :
            Becomes(NoteXfer(St, xil_i2c_write(St, XferViewOf(St, d), fail),
                             "write", d))

\* a caller calls xil_i2c_read on a descriptor it holds
ReadCall ==
  /\ ~halted
  /\ \E d \in Descs :
       /\ desc[d].state = "live"
       /\ \E fail \in XferFailsIn(St, d) :
            Becomes(NoteXfer(St, xil_i2c_read(St, XferViewOf(St, d), fail),
                             "read", d))

\* a transfer through a pointer to a freed descriptor: the fields read are
\* stale, and the instance pointer among them may no longer point at an
\* instance (wild), in which case the BSP call on it faults
XferFreed(s, d, t, op, wild) ==
  LET t1 == IF wild /\ t.calls # << >> THEN Fault(s, "wild_pointer") ELSE t
  IN [NoteXfer(s, t1, op, d) EXCEPT !.misuse = @ + 1]

\* a caller calls xil_i2c_write on a descriptor it has removed before
WriteFreedCall ==
  /\ ~halted
  /\ misuse < MaxMisuse
  /\ \E d \in Descs, fail \in XferFails, wild \in BOOLEAN :
       /\ desc[d].state = "freed"
       /\ \E view \in StaleXferViews(St, d) :
            Becomes(XferFreed(St, d, xil_i2c_write(St, view, fail),
                              "write_freed", wild))

\* a caller calls xil_i2c_read on a descriptor it has removed before
ReadFreedCall ==
  /\ ~halted
  /\ misuse < MaxMisuse
  /\ \E d \in Descs, fail \in XferFails, wild \in BOOLEAN :
       /\ desc[d].state = "freed"
       /\ \E view \in StaleXferViews(St, d) :
            Becomes(XferFreed(St, d, xil_i2c_read(St, view, fail),
                              "read_freed", wild))

\* the identifiers a record may hold (uint32_t): values around 0, 2^8,
\* 2^16, 2^31 and 2^32 - 1, as 32-bit representatives
Ids32 ==
  {0, 1, 2, 255, 256, 65535, 65536, 65537, INT32_MAX - 1, INT32_MAX,
   INT32_MIN, INT32_MIN + 1, -65537, -65536, -65535, -256, -2, -1}

\* the list compares a record holding identifier a with a key holding b
CmpCall ==
  \E a \in Ids32, b \in Ids32 :
    LET el1 == Item(1, a, 1)
        el2 == Item(0, b, 0)
    IN Becomes([St EXCEPT !.cmp = [op |-> "cmp", el1 |-> a, el2 |-> b,
                                   result |-> xil_i2c_cmp(el1, el2),
                                   found |-> FindIndex(<< el1 >>, el2)]])

Next == InitCall \/ RemoveCall

\* callers that keep to the API: every descriptor is removed at most once
Spec == Init /\ [][Next]_vars

NextMemOk == InitCallMemOk \/ RemoveCall

\* the same callers on a system where malloc, calloc and push never fail
SpecMemOk == Init /\ [][NextMemOk]_vars

NextMisuse == InitCallMemOk \/ RemoveCall \/ RemoveFreedCall

\* callers that may also call remove on a removed descriptor
SpecMisuse == Init /\ [][NextMisuse]_vars

NextCmp == CmpCall

\* the comparator on its own, on any pair of identifiers
SpecCmp == Init /\ [][NextCmp]_vars

NextXfer == InitCallOk \/ RemoveCall \/ WriteCall \/ ReadCall

\* callers that keep to the API and transfer on the descriptors they hold,
\* while every step of xil_i2c_init succeeds
SpecXfer == Init /\ [][NextXfer]_vars

NextXferSclk == InitCallUp \/ RemoveCall \/ WriteCall \/ ReadCall

\* the same callers, when the XIicPs_SetSClk call of xil_i2c_init may fail
SpecXferSclk == Init /\ [][NextXferSclk]_vars

NextXferMisuse == NextXfer \/ WriteFreedCall \/ ReadFreedCall

\* callers that may also transfer on a removed descriptor
SpecXferMisuse == Init /\ [][NextXferMisuse]_vars


\* ------------------------------------------------------------ properties
\* the descriptors a successful init returned for controller id of family f
Made(f, id) ==
  {d \in Descs : /\ desc[d].state # "unused"
                 /\ desc[d].type = f /\ desc[d].device_id = id}
\* those of them no remove has freed
Live(f, id) == {d \in Made(f, id) : desc[d].state = "live"}
Freed(f, id) == {d \in Made(f, id) : desc[d].state = "freed"}

\* the family's registry as the driver sees it now
Registry(f) == IF f = "IIC_PL" THEN pl_list.elems ELSE ps_list.elems
\* the records of controller id in it
Records(f, id) ==
  {k \in 1 .. Len(Registry(f)) : Registry(f)[k].device_id = id}
\* the backend instances brought up for controller id
InstancesOf(f, id) ==
  {h \in 1 .. Len(instances) :
     instances[h].type = f /\ instances[h].device_id = id}

InCalls(names) == \E k \in 1 .. Len(calls) : calls[k] \in names
CfgInitialize == {"XIic_CfgInitialize", "XIicPs_CfgInitialize"}
Teardown == {"XIic_Stop"}
LastIs(op, f, id) == last.op = op /\ last.type = f /\ last.device_id = id

\* C1: after n >= 1 successful xil_i2c_init calls for a controller and no
\* xil_i2c_remove call for it, exactly one backend instance has been brought
\* up for the controller, every descriptor holds that instance, the registry
\* holds one record for it with inst_no = n, and the 2nd..n-th init made no
\* backend initialise call.
C1_OneInstancePerController ==
  \A f \in Families, id \in DeviceIds :
    (hist[f][id] = "inits" /\ Made(f, id) # {}) =>
      /\ Cardinality(InstancesOf(f, id)) = 1
      /\ \A d \in Made(f, id) : desc[d].instance \in InstancesOf(f, id)
      /\ Cardinality(Records(f, id)) = 1
      /\ \A k \in Records(f, id) :
           Registry(f)[k].inst_no = Cardinality(Made(f, id))
      /\ (LastIs("init", f, id) /\ ret = "SUCCESS"
            /\ Cardinality(Made(f, id)) >= 2) => ~InCalls(CfgInitialize)

\* C2: n successful inits of a controller followed by k successful removes:
\* while k < n the record is still registered with inst_no = n - k and no
\* teardown has been called; the n-th remove calls the backend teardown once
\* (XIic_Stop; the IIC_PS code has no teardown call to make) and leaves no
\* record.
C2_TeardownAtLastRemove ==
  \A f \in Families, id \in DeviceIds :
    hist[f][id] = "removes" =>
      LET n == Cardinality(Made(f, id))
          k == Cardinality(Freed(f, id))
      IN /\ k < n =>
              /\ Cardinality(Records(f, id)) = 1
              /\ \A r \in Records(f, id) : Registry(f)[r].inst_no = n - k
              /\ \A h \in InstancesOf(f, id) : ~instances[h].stopped
              /\ LastIs("remove", f, id) => ~InCalls(Teardown)
         /\ k = n =>
              /\ Records(f, id) = {}
              /\ (f = "IIC_PL" /\ LastIs("remove", f, id)) =>
                   Cardinality({j \in 1 .. Len(calls) :
                                  calls[j] \in Teardown}) = 1

\* C3: the reference count of a controller's record equals the number of
\* live descriptors for the controller, and the record exists exactly when
\* there is at least one.
C3_CountIsLiveDescriptors ==
  \A f \in Families, id \in DeviceIds :
    /\ (Records(f, id) # {}) <=> (Live(f, id) # {})
    /\ \A k \in Records(f, id) :
         Registry(f)[k].inst_no = Cardinality(Live(f, id))

\* C4: a live descriptor never holds an instance whose controller has been
\* torn down or whose record has left the registry.
C4_DescriptorNeverOutlivesRecord ==
  \A d \in Descs :
    desc[d].state = "live" =>
      /\ ~instances[desc[d].instance].stopped
      /\ \E k \in Records(desc[d].type, desc[d].device_id) :
           Registry(desc[d].type)[k].instance = desc[d].instance

\* C5: each registry holds at most one record per controller, and no record
\* exists outside the family's current registry.
C5_OneRecordPerController ==
  /\ \A f \in Families, id \in DeviceIds : Cardinality(Records(f, id)) <= 1
  /\ lost = {}

\* C6: between facade calls every registered record has inst_no >= 1 (as
\* the unsigned count: neither 0 nor a wrapped value above the number of
\* descriptors).
C6_CountAtLeastOne ==
  \A f \in Families :
    \A k \in 1 .. Len(Registry(f)) :
      Registry(f)[k].inst_no >= 1 /\ Registry(f)[k].inst_no <= MaxDesc


\* what xil_i2c_remove may change besides the caller's descriptor
RegistriesUnchanged ==
  /\ pl_list' = pl_list /\ ps_list' = ps_list
  /\ pl_it' = pl_it /\ ps_it' = ps_it /\ lost' = lost
BackendUnchanged ==
  /\ instances' = instances /\ pl_started' = pl_started /\ ps_sclk' = ps_sclk

\* C7: xil_i2c_remove on a descriptor that an earlier xil_i2c_remove removed
\* returns FAILURE, changes no record and calls no backend teardown.
C7_SecondRemoveFails ==
  [][last'.op = "remove_freed" =>
       /\ ret' = "FAILURE"
       /\ RegistriesUnchanged
       /\ \A k \in 1 .. Len(calls') : calls'[k] \notin Teardown]_vars

\* C8: whenever xil_i2c_remove returns FAILURE, the registries, every
\* record's inst_no, the backend and the descriptor are as before the call.
C8_FailedRemoveChangesNothing ==
  [][(last'.op = "remove" /\ ret' = "FAILURE") =>
       /\ RegistriesUnchanged
       /\ BackendUnchanged
       /\ desc' = desc /\ heap' = heap]_vars

\* C9: xil_i2c_init with a selector that is neither IIC_PL nor IIC_PS, or
\* of a family that is not compiled in, returns FAILURE, does not write the
\* caller's descriptor pointer and leaves nothing allocated: the heap, the
\* descriptors, the registries and the backend are as before the call.
C9_UnsupportedSelector ==
  [][(last'.op = "init" /\ ~Built(St, last'.type)) =>
       /\ ret' = "FAILURE"
       /\ out' = out
       /\ heap' = heap /\ desc' = desc
       /\ RegistriesUnchanged
       /\ BackendUnchanged]_vars

\* an unsupported selector has just been refused while a descriptor of
\* another caller is live
C9_Witness ==
  /\ last.op = "init" /\ last.type = "IIC_OTHER"
  /\ path = "unsupported" /\ ret = "FAILURE"
  /\ \E d \in Descs : desc[d].state = "live"

\* the bring-up steps that can fail in xil_i2c_init
BringUpFails ==
  {"lookup_config", "cfg_initialize", "start", "set_address", "self_test",
   "set_gp_output"}

\* C10: an init whose backend bring-up fails for a controller without a
\* record returns FAILURE and registers no record; the init of the same
\* controller that follows it, no step of which fails, finds no record,
\* performs the backend initialisation itself and ends with inst_no = 1.
C10_FailedBringUpThenFresh ==
  [][\A f \in Families, id \in DeviceIds :
       /\ (LastIs("init", f, id)' /\ path' \in BringUpFails) =>
            /\ ret' = "FAILURE"
            /\ Records(f, id)' = {}
       /\ (/\ LastIs("init", f, id) /\ path \in BringUpFails
           /\ LastIs("init", f, id)' /\ path' \notin BringUpFails) =>
            /\ ret' = "SUCCESS"
            /\ InCalls(CfgInitialize)'
            /\ \E k \in Records(f, id)' : (Registry(f)[k].inst_no)' = 1]_vars

\* the records of both registries are as before the call
RecordsUnchanged ==
  /\ pl_list.elems' = pl_list.elems /\ ps_list.elems' = ps_list.elems
  /\ lost' = lost

\* C11: when a bring-up step of xil_i2c_init fails for a controller that has
\* no record (config lookup, CfgInitialize, XIic_Start, XIic_SetAddress,
\* XIic_SelfTest, XIic_SetGpOutput), the call returns FAILURE, the controller
\* is not left started and the registries hold the records they held.
C11_FailedInitAllOrNothing ==
  [][\A f \in Families, id \in DeviceIds :
       (LastIs("init", f, id)' /\ path' \in BringUpFails) =>
         /\ ret' = "FAILURE"
         /\ f = "IIC_PL" => ~pl_started'[id]
         /\ RecordsUnchanged]_vars

\* the descriptor blocks and the instance block, which xil_i2c_init tests
\* after allocating
CheckedAllocs == {"malloc_idesc", "malloc_xdesc", "malloc_instance"}

\* C12: when storage for the descriptor, the extra descriptor or the backend
\* instance cannot be obtained, xil_i2c_init returns FAILURE with the heap
\* and the records as before; when calloc returns no record the call does
\* not fault; and an init that returns SUCCESS has its record, holding the
\* descriptor's instance, in the family's registry.
C12_AllocationFailure ==
  [][last'.op = "init" =>
       /\ path' \in CheckedAllocs =>
            ret' = "FAILURE" /\ heap' = heap /\ RecordsUnchanged
       /\ path' # "calloc_null"
       /\ \A f \in Families, id \in DeviceIds :
            (LastIs("init", f, id)' /\ ret' = "SUCCESS") =>
              \E k \in Records(f, id)' :
                (Registry(f)[k].instance)' = desc'[out'].instance]_vars

\* the last facade call was a transfer on a descriptor the caller holds
XferOps == {"write", "read"}
\* XIicPs_SetSClk calls xil_i2c_set_transmission_config made in a transfer
SclkCalls(x) == IF x.sclk = "none" THEN 0 ELSE 1

\* C13 as stated: two consecutive transfers (no other transfer in between)
\* with the same max_speed_hz call XIicPs_SetSClk at most once in total.
C13_SameSpeedConfiguresOnce ==
  [][(last'.op \in XferOps /\ xfer.speed # 0 /\ xfer'.speed = xfer.speed) =>
       SclkCalls(xfer) + SclkCalls(xfer') <= 1]_vars

\* C13 amended: the same, unless the XIicPs_SetSClk call of the first
\* transfer failed; a transfer whose XIicPs_SetSClk call fails returns
\* FAILURE and leaves ps_last_bitrate as it was, so that the next transfer
\* calls it again.
C13_SameSpeedConfiguresOnceUnlessFailed ==
  [][last'.op \in XferOps =>
       /\ (xfer.speed # 0 /\ xfer'.speed = xfer.speed /\ xfer.sclk # "failed")
            => SclkCalls(xfer) + SclkCalls(xfer') <= 1
       /\ xfer'.sclk = "failed" =>
            ret' = "FAILURE" /\ ps_last_bitrate' = ps_last_bitrate]_vars

\* an IIC_PS transfer has skipped XIicPs_SetSClk because a transfer before
\* it programmed the speed it asks for
C13_Witness ==
  /\ last.op \in XferOps /\ last.type = "IIC_PS"
  /\ path = "transferred" /\ xfer.sclk = "none"
  /\ xfer.speed = ps_last_bitrate /\ ps_last_bitrate \in Speeds

\* how often the call made a BSP function, and whether every call of b came
\* after a call of a
Count(cs, name) == Cardinality({k \in 1 .. Len(cs) : cs[k] = name})
Precedes(cs, a, b) ==
  \A j \in 1 .. Len(cs) : cs[j] = b => \E i \in 1 .. (j - 1) : cs[i] = a

C15_TransferFailureSurfaced ==
  last.op \in XferOps =>
    /\ xfer.transfer = "failed" => ret = "FAILURE"
    /\ ret = "SUCCESS" =>
         /\ xfer.sclk # "failed"
         /\ path = "transferred"
         /\ xfer.transfer = "ok"

\* C16: xil_i2c_write and xil_i2c_read, whether they return SUCCESS or
\* FAILURE, leave the descriptors, both registries with every record's
\* inst_no, the backend instances and the heap as they were and call no
\* backend teardown; the descriptor is still live afterwards.
C16_TransferFrame ==
  [][last'.op \in XferOps =>
       /\ desc' = desc /\ out' = out /\ heap' = heap
       /\ RegistriesUnchanged
       /\ instances' = instances /\ pl_started' = pl_started
       /\ \A k \in 1 .. Len(calls') : calls'[k] \notin Teardown
       /\ desc'[last'.d].state = "live"]_vars

\* a read on one of two descriptors that share a controller has just failed
C16_Witness ==
  /\ last.op = "read" /\ ret = "FAILURE" /\ path = "short_read"
  /\ desc[last.d].state = "live"
  /\ \E k \in Records("IIC_PL", last.device_id) : pl_list.elems[k].inst_no = 2

\* the family's registry pointer and cursor pointer
FamList(f) == IF f = "IIC_PL" THEN pl_list ELSE ps_list
FamIt(f) == IF f = "IIC_PL" THEN pl_it ELSE ps_it

\* C17: an xil_i2c_init into a family constructs the family's registry and
\* its cursor when, and only when, they have not been constructed yet, so
\* that they exist when the lookup and the insertion run; an init never
\* constructs them again and never makes the registry lose a record.  For
\* IIC_PS as for IIC_PL, whatever inits came before.
C17_RegistryConstructedOnce ==
  [][\A f \in Families, id \in DeviceIds :
       (LastIs("init", f, id)' /\ Built(St, f)) =>
         /\ ~FamList(f)'.null /\ ~FamIt(f)'.null
         /\ Count(calls', "list_init") = IF FamList(f).null THEN 1 ELSE 0
         /\ Count(calls', "iterator_init") = IF FamIt(f).null THEN 1 ELSE 0
         /\ Len(FamList(f)'.elems) >= Len(FamList(f).elems)
         /\ lost' = lost]_vars

\* the last facade call was a transfer on a descriptor removed before it
FreedXferOps == {"write_freed", "read_freed"}

\* C18: xil_i2c_write or xil_i2c_read on a descriptor that a successful
\* xil_i2c_remove has removed returns FAILURE and calls no BSP function
\* (no speed configuration, no option setting, no transfer).
C18_TransferAfterRemoveFails ==
  [][last'.op \in FreedXferOps => ret' = "FAILURE" /\ calls' = << >>]_vars

\* C19: whenever xil_i2c_write or xil_i2c_read has issued a transfer on an
\* IIC_PS controller, the clock programmed on that controller is the
\* max_speed_hz of the descriptor the transfer was called with.
C19_TransferAtRequestedSpeed ==
  (last.op \in XferOps /\ last.type = "IIC_PS" /\ xfer.transfer # "none") =>
    ps_sclk[last.device_id] = xfer.speed

\* C20: when every descriptor a successful xil_i2c_init returned has been
\* removed by a successful xil_i2c_remove, no block the driver allocated is
\* still allocated: descriptor blocks, records and backend instance blocks.
C20_NoLeak ==
  (~halted /\ \A d \in Descs : desc[d].state # "live") =>
    \A k \in BlockKinds : heap[k] = 0

\* C21: ps_last_bitrate changes only in an xil_i2c_write or xil_i2c_read on
\* an IIC_PS descriptor whose XIicPs_SetSClk call succeeded, and is then the
\* descriptor's max_speed_hz; xil_i2c_init (which calls XIicPs_SetSClk
\* itself), xil_i2c_remove, a transfer whose XIicPs_SetSClk call fails and
\* every call on an IIC_PL descriptor leave it as it was.
C21_CacheWrittenByTransferOnly ==
  [][/\ ps_last_bitrate' # ps_last_bitrate =>
          /\ last'.op \in XferOps /\ last'.type = "IIC_PS"
          /\ xfer'.sclk = "ok"
          /\ ps_last_bitrate' = desc[last'.d].max_speed_hz
     /\ (\/ last'.op \notin XferOps
         \/ last'.type # "IIC_PS"
         \/ xfer'.sclk # "ok") => ps_last_bitrate' = ps_last_bitrate]_vars

\* an xil_i2c_init has programmed a speed on an IIC_PS controller other
\* than the one a transfer before it left in ps_last_bitrate
C21_Witness ==
  /\ last.op = "init" /\ last.type = "IIC_PS" /\ ret = "SUCCESS"
  /\ InCalls({"XIicPs_SetSClk"})
  /\ ps_last_bitrate \in Speeds
  /\ ps_sclk[last.device_id] \in Speeds \ {ps_last_bitrate}

\* C22: xil_i2c_cmp returns 0 exactly when the two records hold the same
\* 32-bit device_id, whatever the two identifiers (the difference wraps
\* modulo 2^32 and is returned as int32_t), so that a lookup finds a record
\* only under its own identifier.
C22_CmpZeroIffEqual ==
  cmp.op = "cmp" =>
    /\ (cmp.result = 0) <=> (cmp.el1 = cmp.el2)
    /\ (cmp.found # 0) <=> (cmp.el1 = cmp.el2)

\* identifiers 0 and 0xFFFFFFFF have been compared: the difference wrapped
\* to 1
C22_Witness ==
  /\ cmp.op = "cmp" /\ cmp.el1 = 0 /\ cmp.el2 = -1
  /\ cmp.result = 1 /\ cmp.found = 0

=============================================================================
